---- MODULE Spec2Model ----
(***************************************************************************)
(* Model of kats/models/metalearner/metalearner_modelselect.py:            *)
(* MetaLearnModelSelect (the model selector) and RandomDownSampler.        *)
(*                                                                         *)
(* Numbers are exact rationals <<num, den>>; NaN is <<0, 0>>.  A Python    *)
(* object is its attribute dictionary: the set `has` of the attributes     *)
(* that exist plus their values.  An operation's outcome is a record       *)
(* [exc, msg, ret, calls, log, x]: the exception it raised ("none" when it  *)
(* returned), the message, the returned value, the collaborator calls      *)
(* (sklearn, joblib, TsFeatures) it made and the lines it logged.          *)
(***************************************************************************)
EXTENDS Integers, Sequences, FiniteSets, TLC

VARIABLES sel, files, arg, last, steps

vars == <<sel, files, arg, last, steps>>

----------------------------------------------------------------------------
(* Bounds of the model *)

\* operations per run of the selector specification
MaxSteps == 3
\* rows of the sampler's input in the sampler specification
MaxRows == 5
\* distinct hyper-parameter tables among the records of a generated metadata list
HptKinds == 2

----------------------------------------------------------------------------
(* Exact rational arithmetic *)

NaN == <<0, 0>>

Abs(n) == IF n < 0 THEN 0 - n ELSE n

RECURSIVE GCD(_, _)
GCD(a, b) == IF b = 0 THEN a ELSE GCD(b, a % b)

Norm(n, d) ==
    IF d = 0 THEN NaN
    ELSE LET g == GCD(Abs(n), Abs(d))
             s == IF d < 0 THEN 0 - 1 ELSE 1
         IN  <<(s * n) \div g, (s * d) \div g>>

R(n) == <<n, 1>>

IsNaN(q) == q[2] = 0

\* the operands are in lowest terms; common factors are divided out before
\* multiplying, so that intermediate products stay small
RAdd(p, q) ==
    IF IsNaN(p) \/ IsNaN(q) THEN NaN
    ELSE LET g == GCD(p[2], q[2])
         IN  Norm(p[1] * (q[2] \div g) + q[1] * (p[2] \div g), (p[2] \div g) * q[2])

RNeg(p) == <<0 - p[1], p[2]>>

RSub(p, q) == RAdd(p, RNeg(q))

RMul(p, q) ==
    IF IsNaN(p) \/ IsNaN(q) THEN NaN
    ELSE LET g1 == GCD(Abs(p[1]), q[2])
             g2 == GCD(Abs(q[1]), p[2])
         IN  <<(p[1] \div g1) * (q[1] \div g2), (p[2] \div g2) * (q[2] \div g1)>>

\* a division by zero gives NaN (numpy's inf is not told apart from its nan)
RDiv(p, q) ==
    IF IsNaN(q) \/ q[1] = 0 THEN NaN
    ELSE RMul(p, IF q[1] < 0 THEN <<0 - q[2], 0 - q[1]>> ELSE <<q[2], q[1]>>)

\* p < q; False when either is NaN
RLess(p, q) == RSub(p, q)[1] < 0

\* the largest r in lo..hi with r * r <= k, by bisection
RECURSIVE ISqrtIn(_, _, _)
ISqrtIn(k, lo, hi) ==
    IF lo >= hi THEN lo
    ELSE LET mid == (lo + hi + 1) \div 2
         IN  IF mid * mid <= k THEN ISqrtIn(k, mid, hi) ELSE ISqrtIn(k, lo, mid - 1)

\* the square root of a perfect square; evaluation stops with an error on any
\* other number, so no state of the model carries a rounded value
ISqrt(k) ==
    LET r == ISqrtIn(k, 0, IF k < 46340 THEN k ELSE 46340)
    IN  IF r * r = k THEN r ELSE CHOOSE x \in {} : TRUE

RSqrt(q) == <<ISqrt(q[1]), ISqrt(q[2])>>

\* s[lo] + ... + s[hi], halving the range
RECURSIVE RSumRange(_, _, _)
RSumRange(s, lo, hi) ==
    IF lo > hi THEN R(0)
    ELSE IF lo = hi THEN s[lo]
    ELSE LET mid == (lo + hi) \div 2
         IN  RAdd(RSumRange(s, lo, mid), RSumRange(s, mid + 1, hi))

RSum(s) == RSumRange(s, 1, Len(s))

----------------------------------------------------------------------------
(* Sequence helpers *)

Range(s) == {s[i] : i \in DOMAIN s}

\* a sequence (List) or a function (Map) with every element computed, once
List(s) == s \o <<>>
Map(f) == f @@ <<>>

Column(X, j) == List([i \in DOMAIN X |-> X[i][j]])

NumCols(X) == IF X = <<>> THEN 0 ELSE Len(X[1])

Count(s, c) == Cardinality({i \in DOMAIN s : s[i] = c})

\* the increasing enumeration of a set of integers
SortedSeq(S) ==
    IF S = {} THEN <<>>
    ELSE LET lo == CHOOSE x \in S : \A y \in S : x <= y
             hi == CHOOSE x \in S : \A y \in S : y <= x
         IN  SelectSeq(List([i \in 1..(hi - lo + 1) |-> lo + i - 1]), LAMBDA x : x \in S)

\* the elements of s in order of first appearance (pandas unique, dict key order)
Unique(s) ==
    LET firsts == SortedSeq({i \in DOMAIN s : \A j \in 1..(i - 1) : s[j] # s[i]})
    IN  List([k \in DOMAIN firsts |-> s[firsts[k]]])

RECURSIVE Concat(_)
Concat(ss) == IF ss = <<>> THEN <<>> ELSE Head(ss) \o Concat(Tail(ss))

Min(S) == CHOOSE x \in S : \A y \in S : x <= y
Max(S) == CHOOSE x \in S : \A y \in S : y <= x

----------------------------------------------------------------------------
(* Outcomes of an operation *)

MsgTooSmall == "Dataset is too small to train a meta learner!"
MsgMissingMetadata == "Missing metadata!"
MsgMissingHpt == "Missing best hyper-params, not able to train a meta learner!"
MsgMissingFeatures == "Missing time series features, not able to train a meta learner!"
MsgMissingBest == "Missing best models, not able to train a meta learner!"
MsgOneClass == "Only one class in the label column (best_model), not able to train a classifier!"
MsgMethod == "Only support RandomForest, GBDT, SVM, KNN, and NaiveBayes method."
MsgEval == "Only support mean and median as evaluation method."
MsgTestSize == "Illegal test set."
MsgNotTrainedSave == "Haven't trained a model."
MsgNotTrainedPred == "Haven't trained a model. Please train a model or load a model before predicting."
MsgNoPretrained == "No existing pre-trained model. Please change file path or train a model first!"
MsgInvalidType == "Invalid source_x type"

\* exc: the exception raised, "none" when the operation returned; msg: its
\* message; ret: the value returned; calls: the collaborator calls made, in
\* order; log: the info and warning lines logged; x: the matrix handed to the
\* classifier
Ok(ret, calls) ==
    [exc |-> "none", msg |-> "", ret |-> ret, calls |-> calls, log |-> <<>>, x |-> <<>>]
Raise(exc, msg, calls) ==
    [exc |-> exc, msg |-> msg, ret |-> <<>>, calls |-> calls, log |-> <<>>, x |-> <<>>]
Logged(out, line) == [out EXCEPT !.log = Append(@, line)]

\* the module's own ValueErrors, by the taxonomy of its messages
ConfigMsgs == {MsgTooSmall, MsgMissingMetadata, MsgMissingHpt, MsgMissingFeatures,
               MsgMissingBest, MsgOneClass, MsgMethod, MsgEval, MsgTestSize,
               MsgInvalidType}
StateMsgs == {MsgNotTrainedSave, MsgNotTrainedPred, MsgNoPretrained}

IsConfigError(r) == r.exc = "ValueError" /\ r.msg \in ConfigMsgs
IsStateError(r) == r.exc = "ValueError" /\ r.msg \in StateMsgs

----------------------------------------------------------------------------
(* The selector's attribute dictionary (self.__dict__) *)

NoneClf == [fitted |-> FALSE]

EmptyDict ==
    [has |-> {}, metadata |-> <<>>, col_namesX |-> <<>>, hpt |-> <<>>,
     metadataX |-> <<>>, metadataY |-> <<>>, x_mean |-> <<>>, x_std |-> <<>>,
     scale |-> FALSE, clf |-> NoneClf]

NoObject == [alive |-> FALSE, d |-> EmptyDict]

\* self.<name> = value
SetAttr(d, name, value) == [d EXCEPT !.has = @ \cup {name}, ![name] = value]

----------------------------------------------------------------------------
(* Column statistics: np.average(.., axis=0), np.std(.., axis=0) *)

Mean(col) == RDiv(RSum(col), R(Len(col)))

Var(col) ==
    LET m == Mean(col)
        sq == List([i \in DOMAIN col |-> RMul(RSub(col[i], m), RSub(col[i], m))])
    IN  Mean(sq)

Std(col) == RSqrt(Var(col))

ColMeans(X) == List([j \in 1..NumCols(X) |-> Mean(Column(X, j))])

\* x_std with the zero entries replaced by 1.0
ColStds(X) ==
    List([j \in 1..NumCols(X) |->
            LET s == Std(Column(X, j)) IN IF s = R(0) THEN R(1) ELSE s])

\* (X - x_mean) / x_std, row by row
ScaleRow(x, mean, std) ==
    List([j \in DOMAIN x |-> RDiv(RSub(x[j], mean[j]), std[j])])

ScaleMatrix(X, mean, std) == List([i \in DOMAIN X |-> ScaleRow(X[i], mean, std)])

\* fillna(0) / x[np.isnan(x)] = 0.0
FillNaRow(x) == List([j \in DOMAIN x |-> IF IsNaN(x[j]) THEN R(0) ELSE x[j]])

----------------------------------------------------------------------------
(* MetaLearnModelSelect._reorganize_data, _validate_data, count_category,   *)
(* __init__                                                                *)

\* a record's value as the loop reads it: ast.literal_eval of a str, else as is
Literal(v) == v.val

Fields == <<"hpt_res", "features", "best_model">>

\* the first record the loop cannot read, 0 when it reads them all
FirstUnreadable(metadata) ==
    LET bad == {i \in DOMAIN metadata : \E f \in Range(Fields) : f \notin DOMAIN metadata[i]}
    IN  IF bad = {} THEN 0 ELSE Min(bad)

PadRow(x, w) == List([j \in 1..w |-> IF j <= Len(x) THEN x[j] ELSE NaN])

_reorganize_data(d) ==
    LET md == d.metadata
        hpt_list == List([i \in DOMAIN md |-> Literal(md[i].hpt_res)])
        metadataX_list ==
            List([i \in DOMAIN md |->
                    LET items == Literal(md[i].features)
                    IN  List([j \in DOMAIN items |-> items[j][2]])])
        metadataY_list == List([i \in DOMAIN md |-> md[i].best_model])
        first == md[1].features
        col_namesX == List([j \in DOMAIN first.val |-> first.val[j][1]])
        width == Max({Len(metadataX_list[i]) : i \in DOMAIN md})
        X == List([i \in DOMAIN md |-> FillNaRow(PadRow(metadataX_list[i], width))])
    IN  IF FirstUnreadable(md) # 0
        THEN [d |-> d, out |-> Raise("KeyError", Fields[Min({k \in 1..3 :
                  Fields[k] \notin DOMAIN md[FirstUnreadable(md)]})], <<>>)]
        ELSE IF first.isStr
        THEN [d |-> d, out |-> Raise("AttributeError", "'str' object has no attribute 'keys'", <<>>)]
        ELSE IF width # Len(col_namesX)
        THEN [d |-> SetAttr(SetAttr(d, "col_namesX", col_namesX), "hpt", hpt_list),
              out |-> Raise("ValueError", "pandas: columns passed do not match the data", <<>>)]
        ELSE [d |-> SetAttr(SetAttr(SetAttr(SetAttr(SetAttr(SetAttr(d,
                        "col_namesX", col_namesX),
                        "hpt", hpt_list),
                        "metadataX", X),
                        "metadataY", metadataY_list),
                        "x_mean", ColMeans(X)),
                        "x_std", ColStds(X)),
              out |-> Ok(<<>>, <<>>)]

\* Counter(self.metadataY): label -> count
count_category(d) ==
    Map([c \in Range(d.metadataY) |-> Count(d.metadataY, c)])

MsgTooSmallAfter == "Not recommend to do downsampling! Dataset will be too small after downsampling!"
MsgImbalance == "Number of obs in majority class is much greater than in minority class. Downsampling is recommended!"
MsgBalanced == "No significant data imbalance problem, no need to do downsampling."

MinRecords == 30
MinAfterDownsample == 30
ImbalanceRatio == 5

\* a validation that rejects imbalanced labels instead of logging: not the
\* code's, C4 tells the two apart
ValidateRejectingImbalance(d) ==
    LET num_class == Cardinality(Range(d.metadataY))
        cc == count_category(d)
        local_count == {cc[c] : c \in DOMAIN cc}
    IN  IF num_class = 1
        THEN Raise("ValueError", MsgOneClass, <<>>)
        ELSE IF Min(local_count) * num_class < MinAfterDownsample
        THEN Logged(Ok(<<>>, <<>>), MsgTooSmallAfter)
        ELSE IF Max(local_count) > Min(local_count) * ImbalanceRatio
        THEN Raise("ValueError", MsgImbalance, <<>>)
        ELSE Logged(Ok(<<>>, <<>>), MsgBalanced)

_validate_data(d) ==
    LET num_class == Cardinality(Range(d.metadataY))
        cc == count_category(d)
        local_count == {cc[c] : c \in DOMAIN cc}
    IN  IF num_class = 1
        THEN Raise("ValueError", MsgOneClass, <<>>)
        ELSE IF Min(local_count) * num_class < MinAfterDownsample
        THEN Logged(Ok(<<>>, <<>>), MsgTooSmallAfter)
        ELSE IF Max(local_count) > Min(local_count) * ImbalanceRatio
        THEN Logged(Ok(<<>>, <<>>), MsgImbalance)
        ELSE Logged(Ok(<<>>, <<>>), MsgBalanced)

\* MetaLearnModelSelect(metadata, load_model=load): the new object (alive when the
\* constructor returned) and the constructor's outcome
Construct(metadata, load) ==
    IF ~load
    THEN IF metadata.isNone
         THEN [obj |-> NoObject,
               out |-> Raise("TypeError", "object of type 'NoneType' has no len()", <<>>)]
         ELSE IF Len(metadata.list) <= MinRecords
         THEN [obj |-> NoObject, out |-> Raise("ValueError", MsgTooSmall, <<>>)]
         ELSE IF "hpt_res" \notin DOMAIN metadata.list[1]
         THEN [obj |-> NoObject, out |-> Raise("ValueError", MsgMissingHpt, <<>>)]
         ELSE IF "features" \notin DOMAIN metadata.list[1]
         THEN [obj |-> NoObject, out |-> Raise("ValueError", MsgMissingFeatures, <<>>)]
         ELSE IF "best_model" \notin DOMAIN metadata.list[1]
         THEN [obj |-> NoObject, out |-> Raise("ValueError", MsgMissingBest, <<>>)]
         ELSE LET d1 == SetAttr(EmptyDict, "metadata", metadata.list)
                  re == _reorganize_data(d1)
                  va == _validate_data(re.d)
              IN  IF re.out.exc # "none"
                  THEN [obj |-> NoObject, out |-> re.out]
                  ELSE IF va.exc # "none"
                  THEN [obj |-> NoObject, out |-> va]
                  ELSE [obj |-> [alive |-> TRUE,
                                 d |-> SetAttr(SetAttr(re.d, "scale", FALSE), "clf", NoneClf)],
                        out |-> va]
    ELSE [obj |-> [alive |-> TRUE, d |-> EmptyDict], out |-> Ok(<<>>, <<>>)]

----------------------------------------------------------------------------
(* RandomDownSampler.fit_resample *)

\* a draw with replacement: not the code's, C5 tells the two apart
SelectionsWithReplacement(S, k) == [1..k -> S]

\* np.random.choice(S, size=k, replace=False): every arrangement of k distinct
\* elements of S
OrderedSelections(S, k) ==
    {f \in [1..k -> S] : \A a, b \in 1..k : a # b => f[a] # f[b]}

\* one draw per class, the classes in the order their labels first appear; the
\* result is the sequence of the selected row indices
RECURSIVE DrawAll(_, _, _)
DrawAll(keys, dataY, min_n) ==
    IF keys = <<>> THEN {<<>>}
    ELSE LET idx == {i \in DOMAIN dataY : dataY[i] = Head(keys)}
         IN  {chosen \o rest : chosen \in OrderedSelections(idx, min_n),
                               rest \in DrawAll(Tail(keys), dataY, min_n)}

\* every (resampled_hpt, resampled_x, resampled_y) the call can return
fit_resample(hpt, dataX, dataY) ==
    LET keys == Unique(dataY)
        min_n == Min({Count(dataY, c) : c \in Range(dataY)})
    IN  {[hpt |-> List([r \in DOMAIN rows |-> hpt[rows[r]]]),
          X |-> List([r \in DOMAIN rows |-> dataX[rows[r]]]),
          Y |-> List([r \in DOMAIN rows |-> dataY[rows[r]]])] :
            rows \in DrawAll(keys, dataY, min_n)}

----------------------------------------------------------------------------
(* MetaLearnModelSelect.preprocess *)

AttrError(name) == Raise("AttributeError", name, <<>>)

\* the first of the names (in the order the code reads them) the object lacks
Missing(d, names) ==
    LET lacking == {k \in DOMAIN names : names[k] \notin d.has}
    IN  IF lacking = {} THEN "" ELSE names[Min(lacking)]

\* a downsampling that replaces hpt and metadataX and leaves metadataY: not
\* the code's, C13 tells the two apart
DownsampledKeepingLabels(d) ==
    {SetAttr(SetAttr(SetAttr(SetAttr(d,
        "hpt", r.hpt), "metadataX", r.X),
        "x_mean", ColMeans(r.X)), "x_std", ColStds(r.X)) :
            r \in fit_resample(d.hpt, d.metadataX, d.metadataY)}

\* the `if downsample:` block: every dictionary it can leave
Downsampled(d) ==
    {SetAttr(SetAttr(SetAttr(SetAttr(SetAttr(d,
        "hpt", r.hpt), "metadataX", r.X), "metadataY", r.Y),
        "x_mean", ColMeans(r.X)), "x_std", ColStds(r.X)) :
            r \in fit_resample(d.hpt, d.metadataX, d.metadataY)}

\* the `if scale:` block
Scaled(d) ==
    LET d1 == SetAttr(d, "scale", TRUE)
        miss == Missing(d1, <<"metadataX", "x_mean", "x_std">>)
    IN  IF miss # ""
        THEN [d |-> d1, out |-> AttrError(miss)]
        ELSE [d |-> SetAttr(d1, "metadataX", ScaleMatrix(d1.metadataX, d1.x_mean, d1.x_std)),
              out |-> Ok(<<>>, <<>>)]

\* every (dictionary, outcome) preprocess(downsample, scale) can end with
preprocess(d, downsample, scale) ==
    LET missDown == Missing(d, <<"hpt", "metadataX", "metadataY">>)
        afterDown == IF downsample THEN Downsampled(d) ELSE {d}
    IN  IF downsample /\ missDown # ""
        THEN {[d |-> d, out |-> AttrError(missDown)]}
        ELSE {IF scale THEN Scaled(d2) ELSE [d |-> d2, out |-> Ok(<<>>, <<>>)] :
                 d2 \in afterDown}

----------------------------------------------------------------------------
(* MetaLearnModelSelect.get_corr_mtx *)

Cov(a, b) ==
    LET ma == Mean(a)
        mb == Mean(b)
    IN  Mean(List([i \in DOMAIN a |-> RMul(RSub(a[i], ma), RSub(b[i], mb))]))

\* Pearson's r of two columns, kept exact as sign(r) * r^2; NaN when a column
\* is constant
Corr(a, b) ==
    LET c == Cov(a, b)
        r2 == RDiv(RMul(c, c), RMul(Var(a), Var(b)))
    IN  IF RLess(c, R(0)) THEN RNeg(r2) ELSE r2

\* self.metadataX.corr(): one row and one column per feature
get_corr_mtx(d) ==
    LET X == d.metadataX
    IN  List([j \in 1..NumCols(X) |->
                List([k \in 1..NumCols(X) |-> Corr(Column(X, j), Column(X, k))])])

----------------------------------------------------------------------------
(* The classifier backend (sklearn), as far as the selector uses it: fit,    *)
(* predict, predict_proba, classes_, estimators_.  A fitted classifier keeps *)
(* the sorted class labels, one centroid per class and, for a random forest, *)
(* the classes each tree's bootstrap sample held; it predicts the class of   *)
(* the nearest centroid.  fit_scale, fit_mean and fit_std record the         *)
(* selector's scale flag and statistics at the moment of the fit.            *)

LabelNames == <<"A", "B", "C", "D", "E", "F">>

LabelIndex(c) == CHOOSE k \in DOMAIN LabelNames : LabelNames[k] = c

Methods == {"RandomForest", "GBDT", "SVM", "KNN", "NaiveBayes"}
EvalMethods == {"mean", "median"}

SortedLabels(S) ==
    LET idx == SortedSeq({LabelIndex(c) : c \in S})
    IN  List([k \in DOMAIN idx |-> LabelNames[idx[k]]])

RowsOf(X, Y, c) ==
    LET idx == SortedSeq({i \in DOMAIN Y : Y[i] = c})
    IN  List([k \in DOMAIN idx |-> X[idx[k]]])

\* every classifier clf.fit(x_train, y_train) can produce; ok is FALSE when
\* sklearn refuses the training set
Fit(method, x_train, y_train, n_trees, n_neighbors, d) ==
    LET present == Range(y_train)
        base == [fitted |-> TRUE, method |-> method,
                 classes |-> SortedLabels(present),
                 theta |-> Map([c \in present |-> ColMeans(RowsOf(x_train, y_train, c))]),
                 n_fit |-> Len(x_train), n_features |-> NumCols(x_train), n_neighbors |-> n_neighbors, trees |-> <<>>,
                 fit_scale |-> d.scale, fit_mean |-> d.x_mean, fit_std |-> d.x_std]
    IN  IF method \in {"GBDT", "SVM"} /\ Cardinality(present) = 1
        THEN {[ok |-> FALSE, clf |-> NoneClf]}
        ELSE IF method = "RandomForest"
        THEN {[ok |-> TRUE, clf |-> [base EXCEPT !.trees = t]] :
                 t \in [1..n_trees -> (SUBSET present) \ {{}}]}
        ELSE {[ok |-> TRUE, clf |-> base]}

SqDist(x, y) ==
    RSum(List([j \in DOMAIN x |-> RMul(RSub(x[j], y[j]), RSub(x[j], y[j]))]))

\* the class of S whose centroid is nearest to x, the first such class on a tie
Nearest(clf, S, x) ==
    CHOOSE c \in S : \A c2 \in S :
        \/ RLess(SqDist(x, clf.theta[c]), SqDist(x, clf.theta[c2]))
        \/ /\ SqDist(x, clf.theta[c]) = SqDist(x, clf.theta[c2])
           /\ LabelIndex(c) <= LabelIndex(c2)

\* estimators_[t].predict_proba(x)[0]: the tree votes for one class
TreeProba(clf, t, x) ==
    LET vote == Nearest(clf, clf.trees[t], x)
    IN  List([k \in DOMAIN clf.classes |-> IF clf.classes[k] = vote THEN R(1) ELSE R(0)])

\* clf.predict_proba(x)[0], in the order of clf.classes_
PredictProba(clf, x) ==
    LET k == Len(clf.classes)
        dist == List([c \in DOMAIN clf.classes |-> SqDist(x, clf.theta[clf.classes[c]])])
        total == RSum(dist)
        votes == List([t \in DOMAIN clf.trees |-> TreeProba(clf, t, x)])
    IN  IF clf.method = "RandomForest"
        THEN List([c \in 1..k |->
                     RDiv(RSum(List([t \in DOMAIN votes |-> votes[t][c]])),
                          R(Len(clf.trees)))])
        ELSE IF k = 1 THEN <<R(1)>>
        ELSE IF total = R(0) THEN List([c \in 1..k |-> <<1, k>>])
        ELSE List([c \in 1..k |-> RDiv(RSub(total, dist[c]), RMul(R(k - 1), total))])

\* np.argsort(-prob): the positions by descending value, equal values in
\* position order
ArgSortDesc(prob) ==
    List([r \in DOMAIN prob |->
            CHOOSE i \in DOMAIN prob :
                Cardinality({j \in DOMAIN prob :
                    RLess(prob[i], prob[j]) \/ (prob[j] = prob[i] /\ j < i)}) = r - 1])

\* clf.predict(x)[0]
Predict(clf, x) == clf.classes[ArgSortDesc(PredictProba(clf, x))[1]]

\* whether clf.predict_proba exists: SVC(gamma="auto") is built without
\* probability=True, and the pipeline around it exposes none either
HasPredictProba(clf) == clf.method # "SVM"

\* whether clf.predict accepts inputs: k-nearest-neighbours needs at least
\* n_neighbors fitted rows
CanPredict(clf) == clf.method = "KNN" => clf.n_neighbors <= clf.n_fit

\* s[:n]
PySliceTo(s, n) ==
    IF n >= 0 THEN SubSeq(s, 1, IF n < Len(s) THEN n ELSE Len(s))
    ELSE SubSeq(s, 1, IF Len(s) + n > 0 THEN Len(s) + n ELSE 0)

----------------------------------------------------------------------------
(* MetaLearnModelSelect.train *)

\* the subsets of 1..n with k elements
RECURSIVE KSubsets(_, _)
KSubsets(n, k) ==
    IF k = 0 THEN {{}}
    ELSE IF n < k THEN {}
    ELSE KSubsets(n - 1, k) \cup {T \cup {n} : T \in KSubsets(n - 1, k - 1)}

\* train_test_split(X, Y, hpt, test_size): the test rows it can pick.  The
\* split also shuffles; nothing train computes depends on the row order, so
\* both parts keep the rows in their stored order.
NTest(n, test_size) == (test_size[1] * n + test_size[2] - 1) \div test_size[2]

TestSets(n, test_size) == KSubsets(n, NTest(n, test_size))

\* Test sets that hold equal rows (equal hpt, features and label, each as often)
\* leave train with the same classifier and the same result, whichever rows
\* they are: one test set of each kind
OneOfEachKind(d, tests) ==
    LET row(i) == <<d.hpt[i], d.metadataX[i], d.metadataY[i]>>
        kind(T) == Map([r \in {row(i) : i \in T} |-> Cardinality({i \in T : row(i) = r})])
    IN  {CHOOSE T \in tests : kind(T) = k : k \in {kind(T) : T \in tests}}

\* the sum of a list of integers
RECURSIVE SumRange(_, _, _)
SumRange(s, lo, hi) ==
    IF lo > hi THEN 0
    ELSE IF lo = hi THEN s[lo]
    ELSE SumRange(s, lo, (lo + hi) \div 2) + SumRange(s, (lo + hi) \div 2 + 1, hi)

Sum(s) == SumRange(s, 1, Len(s))

\* the k-th smallest value of s
OrderStat(s, k) ==
    CHOOSE v \in Range(s) :
        /\ Cardinality({i \in DOMAIN s : s[i] < v}) < k
        /\ k <= Cardinality({i \in DOMAIN s : s[i] <= v})

\* em: np.mean or np.median of a list of errors
Aggregate(eval_method, errs) ==
    LET n == Len(errs)
    IN  IF n = 0 THEN NaN
        ELSE IF eval_method = "mean" THEN Norm(Sum(errs), n)
        ELSE IF n % 2 = 1 THEN R(OrderStat(errs, (n + 1) \div 2))
        ELSE Norm(OrderStat(errs, n \div 2) + OrderStat(errs, n \div 2 + 1), 2)

\* hpt.iloc[i][c][-1]
ErrorOf(table, c) == table[c][Len(table[c])]

\* the errors of the pre-selected models over one part of the split, for all
\* candidate models
LabelErrors(eval_method, hpt, labels) ==
    Map([label \in labels |->
            Aggregate(eval_method, List([i \in DOMAIN hpt |-> ErrorOf(hpt[i], label)]))])

\* {"meta-learn": ..., label: ...} of one part of the split
ErrorTable(eval_method, hpt, predicted, by_label) ==
    ("meta-learn" :> Aggregate(eval_method,
                               List([i \in DOMAIN hpt |-> ErrorOf(hpt[i], predicted[i])])))
        @@ by_label

Accuracy(y_test, y_pred) ==
    Norm(Cardinality({i \in DOMAIN y_test : y_test[i] = y_pred[i]}), Len(y_test))

\* train_test_split for one choice of test rows, with the errors of the
\* pre-selected models over either part
Split(d, test, eval_method) ==
    LET n == Len(d.metadataX)
        tr == SortedSeq((1..n) \ test)
        te == SortedSeq(test)
        hpt_train == List([k \in DOMAIN tr |-> d.hpt[tr[k]]])
        hpt_test == List([k \in DOMAIN te |-> d.hpt[te[k]]])
        labels == Range(d.metadataY)
        \* some row's hpt table has no entry for some label: a KeyError
        lacking == \E c \in labels : \E i \in DOMAIN d.hpt : c \notin DOMAIN d.hpt[i]
    IN  [x_train |-> List([k \in DOMAIN tr |-> d.metadataX[tr[k]]]),
         x_test |-> List([k \in DOMAIN te |-> d.metadataX[te[k]]]),
         y_train |-> List([k \in DOMAIN tr |-> d.metadataY[tr[k]]]),
         y_test |-> List([k \in DOMAIN te |-> d.metadataY[te[k]]]),
         hpt_train |-> hpt_train,
         hpt_test |-> hpt_test,
         fit_labels |-> IF lacking THEN <<>> ELSE LabelErrors(eval_method, hpt_train, labels),
         pred_labels |-> IF lacking THEN <<>> ELSE LabelErrors(eval_method, hpt_test, labels),
         lacking |-> lacking]

\* what train returns once clf is fitted
Result(s, clf, predict, eval_method) ==
    LET y_fit == List([k \in DOMAIN s.x_train |-> predict[s.x_train[k]]])
        y_pred == List([k \in DOMAIN s.x_test |-> predict[s.x_test[k]]])
    IN  [fit_error |-> ErrorTable(eval_method, s.hpt_train, y_fit, s.fit_labels),
         pred_error |-> ErrorTable(eval_method, s.hpt_test, y_pred, s.pred_labels),
         clf_accuracy |-> Accuracy(s.y_test, y_pred)]

\* a train that keeps a classifier the selector already holds: not the code's,
\* C12 tells the two apart
TrainOnKeepingClassifier(d, test, method, eval_method, n_trees, n_neighbors) ==
  UNION {
    {IF ~f.ok
     THEN [d |-> d, out |-> Raise("ValueError", "sklearn: fit needs two classes",
                                  <<"train_test_split", "fit">>)]
     ELSE IF ~CanPredict(f.clf)
     THEN [d |-> d, out |-> Raise("ValueError", "sklearn: n_neighbors exceeds the fitted rows",
                                  <<"train_test_split", "fit", "predict">>)]
     ELSE IF s.lacking
     THEN [d |-> d, out |-> Raise("KeyError", "hpt", <<"train_test_split", "fit", "predict", "predict">>)]
     ELSE [d |-> IF d.clf.fitted THEN d ELSE SetAttr(d, "clf", f.clf),
           out |-> Ok(Result(s, f.clf, Map([x \in Range(d.metadataX) |-> Predict(f.clf, x)]),
                             eval_method),
                      <<"train_test_split", "fit", "predict", "predict", "accuracy_score">>)] :
        f \in Fit(method, s.x_train, s.y_train, n_trees, n_neighbors, d)} :
    s \in {Split(d, test, eval_method)}}

\* the body of train from the split on, for one choice of test rows
TrainOn(d, test, method, eval_method, n_trees, n_neighbors) ==
  UNION {
    {IF ~f.ok
     THEN [d |-> d, out |-> Raise("ValueError", "sklearn: fit needs two classes",
                                  <<"train_test_split", "fit">>)]
     ELSE IF ~CanPredict(f.clf)
     THEN [d |-> d, out |-> Raise("ValueError", "sklearn: n_neighbors exceeds the fitted rows",
                                  <<"train_test_split", "fit", "predict">>)]
     ELSE IF s.lacking
     THEN [d |-> d, out |-> Raise("KeyError", "hpt", <<"train_test_split", "fit", "predict", "predict">>)]
     ELSE [d |-> SetAttr(d, "clf", f.clf),
           out |-> Ok(Result(s, f.clf, Map([x \in Range(d.metadataX) |-> Predict(f.clf, x)]),
                             eval_method),
                      <<"train_test_split", "fit", "predict", "predict", "accuracy_score">>)] :
        f \in Fit(method, s.x_train, s.y_train, n_trees, n_neighbors, d)} :
    s \in {Split(d, test, eval_method)}}

\* a train that checks test_size only by splitting: not the code's, C9 tells
\* the two apart
TrainSplittingFirst(d, method, eval_method, test_size, n_trees, n_neighbors) ==
    LET miss == Missing(d, <<"metadataX", "metadataY", "hpt">>)
        n == Len(d.metadataX)
    IN  IF method \notin Methods
        THEN {[d |-> d, out |-> Raise("ValueError", MsgMethod, <<>>)]}
        ELSE IF eval_method \notin EvalMethods
        THEN {[d |-> d, out |-> Raise("ValueError", MsgEval, <<>>)]}
        ELSE IF miss # ""
        THEN {[d |-> d, out |-> AttrError(miss)]}
        ELSE IF ~RLess(R(0), test_size) \/ ~RLess(test_size, R(1))
        THEN {[d |-> d, out |-> Raise("ValueError", MsgTestSize, <<"train_test_split">>)]}
        ELSE UNION {TrainOn(d, test, method, eval_method, n_trees, n_neighbors) :
                       test \in OneOfEachKind(d, TestSets(n, test_size))}

\* every (dictionary, outcome) train(...) can end with
train(d, method, eval_method, test_size, n_trees, n_neighbors) ==
    LET miss == Missing(d, <<"metadataX", "metadataY", "hpt">>)
        n == Len(d.metadataX)
    IN  IF method \notin Methods
        THEN {[d |-> d, out |-> Raise("ValueError", MsgMethod, <<>>)]}
        ELSE IF eval_method \notin EvalMethods
        THEN {[d |-> d, out |-> Raise("ValueError", MsgEval, <<>>)]}
        ELSE IF ~RLess(R(0), test_size) \/ ~RLess(test_size, R(1))
        THEN {[d |-> d, out |-> Raise("ValueError", MsgTestSize, <<>>)]}
        ELSE IF miss # ""
        THEN {[d |-> d, out |-> AttrError(miss)]}
        ELSE IF n - NTest(n, test_size) = 0
        THEN {[d |-> d, out |-> Raise("ValueError", "sklearn: the resulting train set will be empty",
                                      <<"train_test_split">>)]}
        ELSE UNION {TrainOn(d, test, method, eval_method, n_trees, n_neighbors) :
                       test \in OneOfEachKind(d, TestSets(n, test_size))}

----------------------------------------------------------------------------
(* MetaLearnModelSelect.save_model, load_model; joblib.dump, joblib.load *)

AttrNames == <<"metadata", "col_namesX", "hpt", "metadataX", "metadataY",
               "x_mean", "x_std", "scale", "clf">>

\* a dump that leaves the scale flag out: not the code's, C8 tells the two apart
DumpWithoutScale(d) ==
    LET present == SortedSeq({k \in DOMAIN AttrNames :
                                 AttrNames[k] \in d.has /\ AttrNames[k] # "scale"})
    IN  List([k \in DOMAIN present |-> <<AttrNames[present[k]], d[AttrNames[present[k]]]>>])

\* joblib.dump(self.__dict__, file_name): the file holds the attributes the
\* dictionary has, each with its value
Dump(d) ==
    LET present == SortedSeq({k \in DOMAIN AttrNames : AttrNames[k] \in d.has})
    IN  List([k \in DOMAIN present |-> <<AttrNames[present[k]], d[AttrNames[present[k]]]>>])

\* joblib.load(file_name): the dictionary the file's items make up
RECURSIVE Undump(_)
Undump(blob) ==
    IF blob = <<>> THEN EmptyDict
    ELSE LET item == blob[Len(blob)]
         IN  SetAttr(Undump(SubSeq(blob, 1, Len(blob) - 1)), item[1], item[2])

\* (dictionary, file, outcome) of save_model(file_name)
save_model(d, file) ==
    IF "clf" \notin d.has
    THEN [d |-> d, file |-> file, out |-> AttrError("clf")]
    ELSE IF ~d.clf.fitted
    THEN [d |-> d, file |-> file, out |-> Raise("ValueError", MsgNotTrainedSave, <<>>)]
    ELSE [d |-> d, file |-> [exists |-> TRUE, blob |-> Dump(d), saver |-> d],
          out |-> Ok(<<>>, <<"joblib.dump">>)]

\* (dictionary, outcome) of load_model(file_name)
load_model(d, file) ==
    IF ~file.exists
    THEN [d |-> d, out |-> Raise("ValueError", MsgNoPretrained, <<"joblib.load">>)]
    ELSE [d |-> Undump(file.blob), out |-> Ok(<<>>, <<"joblib.load">>)]

----------------------------------------------------------------------------
(* MetaLearnModelSelect.pred_by_feature, pred, _bootstrap, pred_fuzzy *)

\* source_x is [type, ndim, data]: a list of vectors or of numbers, an
\* np.ndarray of one or two dimensions, a pd.DataFrame.  The array x the code
\* builds from it is [ndim, data].
Stack(source_x) ==
    IF source_x.ndim = 2 THEN [ndim |-> 2, data |-> source_x.data]
    ELSE [ndim |-> 2, data |-> List([i \in DOMAIN source_x.data |-> <<source_x.data[i]>>])]

\* whether numpy can broadcast x against the F statistics
Broadcasts(x, F) ==
    LET w == IF x.ndim = 2 THEN NumCols(x.data) ELSE Len(x.data)
    IN  w = F \/ w = 1 \/ F = 1

\* (x - self.x_mean) / self.x_std with numpy's broadcasting
Standardize(x, mean, std) ==
    LET F == Len(mean)
        at(v, j) == IF Len(v) = 1 THEN v[1] ELSE v[j]
        wide(v) == List([j \in 1..(IF Len(v) > F THEN Len(v) ELSE F) |->
                           RDiv(RSub(at(v, j), at(mean, j)), at(std, j))])
    IN  IF x.ndim = 2
        THEN [ndim |-> 2, data |-> List([i \in DOMAIN x.data |-> wide(x.data[i])])]
        ELSE [ndim |-> 1, data |-> wide(x.data)]

FillNa(x) ==
    IF x.ndim = 2
    THEN [ndim |-> 2, data |-> List([i \in DOMAIN x.data |-> FillNaRow(x.data[i])])]
    ELSE [ndim |-> 1, data |-> FillNaRow(x.data)]

\* whether the classifier takes x: a 2-D array with the fitted number of columns
Accepts(clf, x) == x.ndim = 2 /\ NumCols(x.data) = clf.n_features

\* classes[order][:, :n_top] for one row
TopLabels(clf, row, n_top) ==
    LET order == ArgSortDesc(PredictProba(clf, row))
    IN  PySliceTo(List([r \in DOMAIN order |-> clf.classes[order[r]]]), n_top)

\* np.row_stack(source_x) of a list, source_x.copy() of an array
AsArray(source_x) ==
    IF source_x.type = "list" THEN Stack(source_x)
    ELSE [ndim |-> source_x.ndim, data |-> source_x.data]

pred_by_feature(d, source_x, n_top) ==
    LET x0 == AsArray(source_x)
        x1 == IF d.scale THEN Standardize(x0, d.x_mean, d.x_std) ELSE x0
        x == FillNa(x1)
        stats == Missing(d, <<"x_mean", "x_std">>)
    IN  IF "clf" \notin d.has THEN AttrError("clf")
        ELSE IF ~d.clf.fitted THEN Raise("ValueError", MsgNotTrainedPred, <<>>)
        ELSE IF source_x.type \notin {"list", "ndarray"}
        THEN Raise("ValueError", MsgInvalidType, <<>>)
        ELSE IF "scale" \notin d.has THEN AttrError("scale")
        ELSE IF d.scale /\ stats # "" THEN AttrError(stats)
        ELSE IF d.scale /\ ~Broadcasts(x0, Len(d.x_mean))
        THEN Raise("ValueError", "numpy: operands could not be broadcast together", <<>>)
        ELSE IF n_top = 1
        THEN IF ~Accepts(d.clf, x)
             THEN [Raise("ValueError", "sklearn: predict rejects the shape of X", <<"predict">>)
                      EXCEPT !.x = x]
             ELSE [Ok(List([i \in DOMAIN x.data |-> Predict(d.clf, x.data[i])]), <<"predict">>)
                      EXCEPT !.x = x]
        ELSE IF ~HasPredictProba(d.clf)
        THEN [AttrError("predict_proba") EXCEPT !.x = x]
        ELSE IF ~Accepts(d.clf, x)
        THEN [Raise("ValueError", "sklearn: predict_proba rejects the shape of X",
                    <<"predict_proba">>) EXCEPT !.x = x]
        ELSE [Ok(List([i \in DOMAIN x.data |-> TopLabels(d.clf, x.data[i], n_top)]),
                 <<"predict_proba">>) EXCEPT !.x = x]

\* TsFeatures().transform(ts): source_ts carries the features the extractor
\* returns for the series as given and for the series divided by its maximum
Features(source_ts, ts_scale) ==
    IF ts_scale THEN source_ts.scaled ELSE source_ts.features

MsgNaN == "Features of the test time series contains NaN value, consider processing it."
MsgTsScaled == "Successful scaled! Each value of TS has been divided by the max value of TS."

pred(d, source_ts, ts_scale, n_top) ==
    LET new_features_vector == Features(source_ts, ts_scale)
        inner == pred_by_feature(d, [type |-> "list", ndim |-> 2,
                                     data |-> <<new_features_vector>>], n_top)
        log == (IF ts_scale THEN <<MsgTsScaled>> ELSE <<>>) \o
               (IF \E j \in DOMAIN new_features_vector : IsNaN(new_features_vector[j])
                THEN <<MsgNaN>> ELSE <<>>)
        calls == <<"to_dataframe", "TsFeatures.transform">> \o inner.calls
    IN  IF "clf" \notin d.has THEN Raise("AttributeError", "clf", <<"to_dataframe">>)
        ELSE IF ~d.clf.fitted THEN Raise("ValueError", MsgNotTrainedPred, <<"to_dataframe">>)
        ELSE IF inner.exc # "none" THEN [inner EXCEPT !.calls = calls, !.log = log]
        ELSE [inner EXCEPT !.ret = inner.ret[1], !.calls = calls, !.log = log]

Rep == 200

\* every p-value _bootstrap(data, rep) can return: the share of the rep
\* resamples of diff whose average is negative
_bootstrap(data, rep) ==
    LET diff == List([i \in DOMAIN data |-> RSub(data[i][1], data[i][2])])
    IN  IF \A i \in DOMAIN diff : ~RLess(diff[i], R(0)) THEN {R(0)}
        ELSE IF \A i \in DOMAIN diff : RLess(diff[i], R(0)) THEN {R(1)}
        ELSE {Norm(k, rep) : k \in 0..rep}

\* every outcome of pred_fuzzy(source_ts, ts_scale, sig_level)
pred_fuzzy(d, source_ts, ts_scale, sig_level) ==
    LET test0 == FillNaRow(Features(source_ts, ts_scale))
        test == IF d.scale THEN ScaleRow(test0, d.x_mean, d.x_std) ELSE test0
        stats == Missing(d, <<"x_mean", "x_std">>)
        clf == d.clf
        m == Len(clf.trees)
        data == List([i \in 1..m |-> TreeProba(clf, i, test)])
        prob == PredictProba(clf, test)
        idx == PySliceTo(ArgSortDesc(prob), 2)
        calls == <<"to_dataframe", "TsFeatures.transform">>
        answer(pvalue) ==
            LET keep == IF ~RLess(pvalue, sig_level) THEN idx ELSE PySliceTo(idx, 1)
            IN  [Ok([label |-> List([k \in DOMAIN keep |-> clf.classes[keep[k]]]),
                     probability |-> List([k \in DOMAIN keep |-> prob[keep[k]]]),
                     pvalue |-> pvalue],
                    calls \o <<"estimators_.predict_proba", "predict_proba">>)
                   EXCEPT !.x = [ndim |-> 2, data |-> <<test>>]]
    IN  IF "scale" \notin d.has THEN {Raise("AttributeError", "scale", calls)}
        ELSE IF d.scale /\ stats # "" THEN {Raise("AttributeError", stats, calls)}
        ELSE IF "clf" \notin d.has THEN {Raise("AttributeError", "clf", calls)}
        ELSE IF ~clf.fitted \/ clf.method # "RandomForest"
        THEN {Raise("AttributeError", "estimators_", calls)}
        ELSE IF Len(idx) < 2
        THEN {Raise("IndexError", "index 1 is out of bounds for axis 1 with size 1",
                    calls \o <<"estimators_.predict_proba", "predict_proba">>)}
        ELSE {answer(pvalue) :
                 pvalue \in _bootstrap(List([i \in 1..m |-> <<data[i][idx[1]], data[i][idx[2]]>>]),
                                       Rep)}

----------------------------------------------------------------------------
(* Metadata lists the constructor is given *)

\* the label of record i when the records come class by class, counts[k] of class k
RECURSIVE LabelAt(_, _, _)
LabelAt(counts, k, i) ==
    IF i <= counts[k] THEN LabelNames[k] ELSE LabelAt(counts, k + 1, i - counts[k])

\* one TrainingRecord: d['hpt_res'] maps each candidate model to its best
\* hyper-parameters followed by the error, d['features'] is an ordered mapping
\* name -> number, d['best_model'] is the label
HptTable(i, labels) ==
    Map([c \in labels |-> <<LabelIndex(c), (i + LabelIndex(c)) % HptKinds>>])

TrainingRecord(i, label, labels, f1, f2, isStr) ==
    [hpt_res |-> [isStr |-> isStr, val |-> HptTable(i, labels)],
     features |-> [isStr |-> isStr, val |-> <<<<"f1", f1>>, <<"f2", f2>>>>],
     best_model |-> label]

Without(rec, f) == Map([g \in DOMAIN rec \ {f} |-> rec[g]])

Variants == {"ok", "no_hpt_res_first", "no_features_first", "no_best_model_first",
             "no_best_model_later", "str_all", "str_later", "nan_feature"}

\* a metadata list with counts[k] records of class k, constant feature columns
InitMeta(counts, variant) ==
    LET n == RSum(List([k \in DOMAIN counts |-> R(counts[k])]))[1]
        labels == {LabelNames[k] : k \in DOMAIN counts}
        rec(i) == TrainingRecord(i, LabelAt(counts, 1, i), labels, R(1),
                                 IF variant = "nan_feature" THEN NaN ELSE R(2),
                                 variant = "str_all" \/ (variant = "str_later" /\ i = 2))
    IN  [isNone |-> FALSE,
         list |-> List([i \in 1..n |->
                    IF i = 1 /\ variant = "no_hpt_res_first" THEN Without(rec(i), "hpt_res")
                    ELSE IF i = 1 /\ variant = "no_features_first" THEN Without(rec(i), "features")
                    ELSE IF i = 1 /\ variant = "no_best_model_first" THEN Without(rec(i), "best_model")
                    ELSE IF i = 2 /\ variant = "no_best_model_later" THEN Without(rec(i), "best_model")
                    ELSE rec(i)])]

NoneMetadata == [isNone |-> TRUE, list |-> <<>>]

InitCounts == {<<>>, <<1>>, <<15, 15>>, <<30>>, <<31>>, <<1, 30>>, <<30, 1>>, <<5, 28>>,
               <<16, 15>>, <<6, 30>>, <<6, 31>>, <<2, 29>>, <<11, 11, 11>>, <<10, 10, 51>>,
               <<5, 5, 5, 5, 5, 26>>}

InitInputs == {NoneMetadata} \cup {InitMeta(c, v) : c \in InitCounts, v \in Variants}

\* 37 records, one of class A (at position aPos) and 36 of class B; feature f1
\* is 37 on the A record and 0 elsewhere, f2 is constant
MainMeta(aPos) ==
    [isNone |-> FALSE,
     list |-> List([i \in 1..37 |->
                TrainingRecord(i, IF i = aPos THEN "A" ELSE "B", {"A", "B"},
                               IF i = aPos THEN R(37) ELSE R(0), R(5), FALSE)])]

MainInputs == {MainMeta(1), MainMeta(2)}

----------------------------------------------------------------------------
(* Arguments the operations are called with *)

Instances == {1, 2}
Paths == {"mlms.pkl"}

\* train(method, eval_method, test_size, n_trees, n_neighbors); the defaults
\* are RandomForest, mean, 0.1, 500, 5
TrainArgs(method, eval_method, test_size, n_trees, n_neighbors) ==
    [method |-> method, eval_method |-> eval_method, test_size |-> test_size,
     n_trees |-> n_trees, n_neighbors |-> n_neighbors]

TrainInputs ==
    {TrainArgs("RandomForest", "mean", <<1, 50>>, 2, 5),
     TrainArgs("GBDT", "mean", <<1, 50>>, 2, 5),
     TrainArgs("SVM", "mean", <<1, 50>>, 2, 5),
     TrainArgs("KNN", "median", <<1, 50>>, 2, 5),
     TrainArgs("NaiveBayes", "mean", <<1, 50>>, 2, 5),
     TrainArgs("NaiveBayes", "mean", <<49, 50>>, 2, 5),
     TrainArgs("XGBoost", "mean", <<1, 50>>, 2, 5),
     TrainArgs("RandomForest", "max", <<1, 50>>, 2, 5),
     TrainArgs("RandomForest", "mean", <<0, 1>>, 2, 5),
     TrainArgs("RandomForest", "mean", <<1, 1>>, 2, 5),
     TrainArgs("NaiveBayes", "median", <<0 - 1, 2>>, 2, 5),
     TrainArgs("NaiveBayes", "median", <<3, 2>>, 2, 5),
     TrainArgs("XGBoost", "max", <<0, 1>>, 2, 5)}

SourceX(type, ndim, data) == [type |-> type, ndim |-> ndim, data |-> data]

Vector1 == <<R(37), R(5)>>
Vector2 == <<NaN, R(0)>>

SourceInputs ==
    {SourceX("list", 2, <<Vector1>>), SourceX("list", 2, <<Vector2, Vector1>>),
     SourceX("list", 1, Vector1),
     SourceX("ndarray", 2, <<Vector1>>), SourceX("ndarray", 2, <<Vector1, Vector2>>),
     SourceX("ndarray", 1, Vector1),
     SourceX("DataFrame", 2, <<Vector1>>),
     SourceX("str", 1, <<>>)}

NTops == {1, 2, 3}

\* a series with its features as given and after division by its maximum; the
\* second series is constant zero, so its features are NaN once divided
TsInputs ==
    {[features |-> <<R(37), R(5)>>, scaled |-> <<R(1), <<5, 37>>>>],
     [features |-> <<R(0), R(0)>>, scaled |-> <<NaN, NaN>>]}

SigLevels == {<<1, 5>>}

----------------------------------------------------------------------------
(* State and operations *)

\* a path: whether a file is there, the blob it holds and, for the
\* properties, the dictionary of the selector that wrote it
NoFile == [exists |-> FALSE, blob |-> <<>>, saver |-> EmptyDict]

NoOp == [op |-> "none", inst |-> 0, out |-> Ok(<<>>, <<>>), changed |-> TRUE]

\* the initial state of the constructor's specification: no selector yet
InitNew ==
    /\ sel = [i \in Instances |-> NoObject]
    /\ files = [p \in Paths |-> NoFile]
    /\ arg = <<>>
    /\ last = NoOp
    /\ steps = 0

\* mlms = MetaLearnModelSelect(metadata, load_model), bound to variable i
NewSelector(i, inputs) ==
    /\ ~sel[i].alive
    /\ \E a \in ({[metadata |-> m, load_model |-> FALSE] : m \in inputs}
                  \cup {[metadata |-> NoneMetadata, load_model |-> TRUE]}) :
          LET c == Construct(a.metadata, a.load_model)
          IN  /\ sel' = [sel EXCEPT ![i] = c.obj]
              /\ arg' = a
              /\ last' = [op |-> "__init__", inst |-> i, out |-> c.out,
                          changed |-> c.obj.alive]
    /\ steps' = steps + 1
    /\ UNCHANGED files

(* The constructor alone, over metadata lists of every shape *)
NextInit == steps = 0 /\ NewSelector(1, InitInputs)

SpecInit == InitNew /\ [][NextInit]_vars

\* the state after construction: selector 1 built from a valid metadata list,
\* selector 2 built with load_model=True
Init ==
    /\ \E m \in MainInputs :
          sel = [i \in Instances |->
                   IF i = 1 THEN Construct(m, FALSE).obj
                   ELSE Construct(NoneMetadata, TRUE).obj]
    /\ files = [p \in Paths |-> NoFile]
    /\ arg = <<>>
    /\ last = NoOp
    /\ steps = 0

\* a run is at most MaxSteps calls that change a selector or a file, and ends
\* with the first call that changes neither
Ready == steps < MaxSteps /\ last.changed

\* the call op(a) on selector i left dictionary d2 and files f2 and ended as out
Call(op, i, a, d2, f2, out) ==
    /\ sel' = [sel EXCEPT ![i].d = d2]
    /\ files' = f2
    /\ arg' = a
    /\ last' = [op |-> op, inst |-> i, out |-> out,
                changed |-> (d2 # sel[i].d \/ f2 # files)]
    /\ steps' = steps + 1

CountCategory(i) ==
    /\ Ready
    /\ LET d == sel[i].d
       IN  Call("count_category", i, <<>>, d, files,
                IF "metadataY" \in d.has THEN Ok(count_category(d), <<>>)
                ELSE AttrError("metadataY"))

GetCorrMtx(i) ==
    /\ Ready
    /\ LET d == sel[i].d
       IN  Call("get_corr_mtx", i, <<>>, d, files,
                IF "metadataX" \in d.has THEN Ok(get_corr_mtx(d), <<>>)
                ELSE AttrError("metadataX"))

Preprocess(i) ==
    /\ Ready
    /\ \E downsample, scale \in BOOLEAN :
          \E r \in preprocess(sel[i].d, downsample, scale) :
             Call("preprocess", i, [downsample |-> downsample, scale |-> scale],
                  r.d, files, r.out)

Train(i) ==
    /\ Ready
    /\ \E a \in TrainInputs :
          \E r \in train(sel[i].d, a.method, a.eval_method, a.test_size, a.n_trees,
                          a.n_neighbors) :
             Call("train", i, a, r.d, files, r.out)

SaveModel(i) ==
    /\ Ready
    /\ \E p \in Paths :
          LET r == save_model(sel[i].d, files[p])
          IN  Call("save_model", i, [file_name |-> p], r.d,
                   [files EXCEPT ![p] = r.file], r.out)

LoadModel(i) ==
    /\ Ready
    /\ \E p \in Paths :
          LET r == load_model(sel[i].d, files[p])
          IN  Call("load_model", i, [file_name |-> p], r.d, files, r.out)

PredByFeature(i) ==
    /\ Ready
    /\ \E source_x \in SourceInputs, n_top \in NTops :
          Call("pred_by_feature", i, [source_x |-> source_x, n_top |-> n_top],
               sel[i].d, files, pred_by_feature(sel[i].d, source_x, n_top))

Pred(i) ==
    /\ Ready
    /\ \E source_ts \in TsInputs, ts_scale \in BOOLEAN, n_top \in NTops :
          Call("pred", i, [source_ts |-> source_ts, ts_scale |-> ts_scale, n_top |-> n_top],
               sel[i].d, files, pred(sel[i].d, source_ts, ts_scale, n_top))

PredFuzzy(i) ==
    /\ Ready
    /\ \E source_ts \in TsInputs, ts_scale \in BOOLEAN, sig_level \in SigLevels :
          \E out \in pred_fuzzy(sel[i].d, source_ts, ts_scale, sig_level) :
             Call("pred_fuzzy", i,
                  [source_ts |-> source_ts, ts_scale |-> ts_scale, sig_level |-> sig_level],
                  sel[i].d, files, out)

Next ==
    \E i \in Instances :
        \/ CountCategory(i)
        \/ GetCorrMtx(i)
        \/ Preprocess(i)
        \/ Train(i)
        \/ SaveModel(i)
        \/ LoadModel(i)
        \/ PredByFeature(i)
        \/ Pred(i)
        \/ PredFuzzy(i)

Spec == Init /\ [][Next]_vars

----------------------------------------------------------------------------
(* RandomDownSampler alone, over every label column of up to MaxRows rows *)

\* the rows of a sampler input differ from one another: row i has the hpt
\* table {label: [i]} and the features [i, 0]
SamplerInput(dataY) ==
    [hpt |-> List([i \in DOMAIN dataY |-> Map([c \in Range(dataY) |-> <<i>>])]),
     dataX |-> List([i \in DOMAIN dataY |-> <<R(i), R(0)>>]),
     dataY |-> dataY]

SamplerLabels == {"A", "B", "C"}

SamplerInputs ==
    {SamplerInput(dataY) : dataY \in UNION {[1..n -> SamplerLabels] : n \in 1..MaxRows}}

\* RandomDownSampler(hpt, dataX, dataY): arg holds the sampler's three attributes
InitSampler ==
    /\ sel = [i \in Instances |-> NoObject]
    /\ files = [p \in Paths |-> NoFile]
    /\ arg \in SamplerInputs
    /\ last = NoOp
    /\ steps = 0

FitResample ==
    /\ steps = 0
    /\ \E r \in fit_resample(arg.hpt, arg.dataX, arg.dataY) :
          last' = [op |-> "fit_resample", inst |-> 0, out |-> Ok(r, <<>>), changed |-> FALSE]
    /\ steps' = steps + 1
    /\ UNCHANGED <<sel, files, arg>>

NextSampler == FitResample

SpecSampler == InitSampler /\ [][NextSampler]_vars

----------------------------------------------------------------------------
(* Properties *)

\* selector i holds a fitted classifier.  train stores one when it succeeds,
\* load_model restores the one of the saved selector, nothing removes it: so
\* a train or a load has succeeded on i exactly when Trained(i)
Trained(i) == sel[i].alive /\ "clf" \in sel[i].d.has /\ sel[i].d.clf.fitted
Untrained(i) == sel[i].alive /\ ~Trained(i)

\* C1: on a selector on which no train and no load has succeeded, built from
\* metadata or with load_model=True, each of pred, pred_by_feature, pred_fuzzy
\* and save_model fails with the module's ValueError "Haven't trained a
\* model...", never otherwise and never with a result.
C1_UntrainedCallsRaiseNotTrained ==
    (/\ last.op \in {"pred", "pred_by_feature", "pred_fuzzy", "save_model"}
     /\ Untrained(last.inst))
        => (/\ last.out.exc = "ValueError"
            /\ last.out.msg \in {MsgNotTrainedSave, MsgNotTrainedPred})

\* C2: whenever pred_by_feature hands a matrix to the classifier (the input
\* being 2-D and as wide as the fitted matrix), the matrix
\* is the input standardized with the mean and std of the moment the stored
\* classifier was fit if that fit was on a scaled matrix, and the input as
\* given otherwise (NaN filled with 0 either way); preprocess calls made
\* after the fit change neither.
C2_PredictionScalesAsTheFitDid ==
    (/\ last.op = "pred_by_feature" /\ last.out.x # <<>>
     /\ arg.source_x.ndim = 2
     /\ NumCols(arg.source_x.data) = sel[last.inst].d.clf.n_features)
        => LET clf == sel[last.inst].d.clf
               x0 == AsArray(arg.source_x)
           IN  last.out.x = FillNa(IF clf.fit_scale
                                   THEN Standardize(x0, clf.fit_mean, clf.fit_std)
                                   ELSE x0)

\* C3: MetaLearnModelSelect(None, load_model=False) fails with the ValueError
\* 'Missing metadata!'.
C3_NoneMetadataRaisesMissingMetadata ==
    (last.op = "__init__" /\ ~arg.load_model /\ arg.metadata.isNone)
        => (last.out.exc = "ValueError" /\ last.out.msg = MsgMissingMetadata)

\* the record carries 'hpt_res', 'features' and 'best_model'
Complete(rec) == \A f \in Range(Fields) : f \in DOMAIN rec

\* the constructor can build the label vector: every record is complete and
\* the first record's features are a mapping
Readable(md) == (\A i \in DOMAIN md : Complete(md[i])) /\ ~md[1].features.isStr

\* C4: the constructor, given a metadata list and load_model=False, fails
\* with a configuration error when the list has 30 or fewer records, when the
\* first record lacks one of the three fields, and when the label vector it
\* builds has one class only; given 31 or more complete records with 2 or
\* more distinct labels it succeeds, however imbalanced the classes.
C4_ConstructorValidation ==
    (last.op = "__init__" /\ ~arg.load_model /\ ~arg.metadata.isNone)
        => LET md == arg.metadata.list
               labels == {md[i].best_model : i \in DOMAIN md}
           IN  /\ (Len(md) <= 30 \/ ~Complete(md[1])) => IsConfigError(last.out)
               /\ (Len(md) >= 31 /\ Readable(md) /\ Cardinality(labels) = 1)
                      => IsConfigError(last.out)
               /\ (Len(md) >= 31 /\ Readable(md) /\ Cardinality(labels) >= 2)
                      => (last.out.exc = "none" /\ sel[last.inst].alive)

\* a constructor call that succeeded on classes imbalanced beyond the ratio
\* the validation warns about
C4_ImbalancedListAccepted ==
    /\ last.op = "__init__" /\ ~arg.load_model
    /\ last.out.exc = "none" /\ sel[last.inst].alive
    /\ Len(arg.metadata.list) >= 31
    /\ \E k \in DOMAIN last.out.log : last.out.log[k] = MsgImbalance

\* C5: fit_resample returns every class of the input exactly minCount times,
\* minCount the size of the smallest class, hence minCount x numClasses rows in
\* each of the three outputs; every output row is the (hpt, features, label)
\* of one input row, and no input row is taken twice.  The input rows differ
\* from one another, so the input row an output row comes from is the one
\* equal to it.
C5_ResampleBalancedWithoutRepeats ==
    last.op = "fit_resample"
        => LET r == last.out.ret
               row(i) == <<arg.hpt[i], arg.dataX[i], arg.dataY[i]>>
               classes == Range(arg.dataY)
               minCount == Min({Count(arg.dataY, c) : c \in classes})
               rows == minCount * Cardinality(classes)
               from(k) == {i \in DOMAIN arg.dataY : row(i) = <<r.hpt[k], r.X[k], r.Y[k]>>}
           IN  /\ \A i, j \in DOMAIN arg.dataY : i # j => row(i) # row(j)
               /\ \A c \in classes : Count(r.Y, c) = minCount
               /\ Len(r.hpt) = rows /\ Len(r.X) = rows /\ Len(r.Y) = rows
               /\ \A k \in 1..rows : from(k) # {}
               /\ \A k, l \in 1..rows : k # l => from(k) \cap from(l) = {}

\* a resampling that dropped rows and kept two or more rows of each of two or
\* more classes
C5_RowsDroppedFromLargerClass ==
    /\ last.op = "fit_resample"
    /\ Cardinality(Range(arg.dataY)) >= 2
    /\ Len(last.out.ret.Y) < Len(arg.dataY)
    /\ \A c \in Range(arg.dataY) : Count(last.out.ret.Y, c) >= 2

\* the probability the classifier of selector i gives label c on row x
ProbaOf(i, x, c) ==
    LET clf == sel[i].d.clf
    IN  PredictProba(clf, x)[CHOOSE k \in DOMAIN clf.classes : clf.classes[k] = c]

\* C6: on a trained selector, pred_by_feature given a 2-D input of the fitted
\* width returns, with n_top = 1, exactly one label per input row and, with
\* n_top = k > 1, exactly k labels per input row in order of descending
\* predicted probability, also when k exceeds the number of classes the
\* classifier knows.
C6_TopLabelsPerRow ==
    (/\ last.op = "pred_by_feature" /\ Trained(last.inst)
     /\ arg.source_x.type \in {"list", "ndarray"} /\ arg.source_x.ndim = 2
     /\ NumCols(arg.source_x.data) = sel[last.inst].d.clf.n_features)
        => LET clf == sel[last.inst].d.clf
               ret == last.out.ret
               x == last.out.x.data
           IN  /\ last.out.exc = "none"
               /\ Len(ret) = Len(arg.source_x.data)
               /\ arg.n_top = 1 => \A i \in DOMAIN ret : ret[i] \in Range(clf.classes)
               /\ arg.n_top > 1 =>
                     \A i \in DOMAIN ret :
                        /\ Len(ret[i]) = arg.n_top
                        /\ \A a, b \in DOMAIN ret[i] :
                              a < b => ~RLess(ProbaOf(last.inst, x[i], ret[i][a]),
                                              ProbaOf(last.inst, x[i], ret[i][b]))

\* the input is of a documented type and as wide as the fitted matrix: a
\* vector, a sequence of vectors, a DataFrame
Documented(source_x, width) ==
    /\ source_x.type \in {"list", "ndarray", "DataFrame"}
    /\ IF source_x.ndim = 2 THEN NumCols(source_x.data) = width
       ELSE Len(source_x.data) = width

\* C7: on a trained selector, pred_by_feature (n_top = 1) accepts a single
\* vector, a sequence of vectors and a DataFrame, and returns one prediction
\* per row of the 2-D table the input stands for; it fails with a
\* configuration error only when the input is of none of these types.
C7_DocumentedInputsAccepted ==
    (last.op = "pred_by_feature" /\ Trained(last.inst) /\ arg.n_top = 1)
        => LET width == sel[last.inst].d.clf.n_features
               rows == IF arg.source_x.ndim = 2 THEN Len(arg.source_x.data) ELSE 1
           IN  /\ Documented(arg.source_x, width)
                     => (last.out.exc = "none" /\ Len(last.out.ret) = rows)
               /\ IsConfigError(last.out)
                     => arg.source_x.type \notin {"list", "ndarray", "DataFrame"}

InvalidTrainArgs(a) ==
    \/ a.method \notin {"RandomForest", "GBDT", "SVM", "KNN", "NaiveBayes"}
    \/ a.eval_method \notin {"mean", "median"}
    \/ a.test_size[1] <= 0
    \/ a.test_size[1] >= a.test_size[2]

\* C9: train given a method, an eval_method or a test_size it does not
\* support fails with a configuration error before it splits or fits, and
\* changes nothing: the selector keeps the classifier it had, or none.
C9_InvalidTrainArgsChangeNothing ==
    (last.op = "train" /\ InvalidTrainArgs(arg))
        => (IsConfigError(last.out) /\ last.out.calls = <<>> /\ ~last.changed)

\* a trained selector refused train(test_size=1) and is still trained
C9_TrainedSelectorRefusedTestSizeOne ==
    /\ last.op = "train" /\ arg.test_size = <<1, 1>> /\ arg.method \in Methods
    /\ IsConfigError(last.out)
    /\ Trained(last.inst)

\* C10: after preprocess(scale=True) returns, with or without downsample and
\* whatever calls came before, every column of the stored feature matrix that
\* is not constant (its std was not zero before scaling: scaling maps a
\* column one-to-one) has mean 0 and variance 1 over the rows now stored.
C10_ScaledColumnsStandardized ==
    (last.op = "preprocess" /\ arg.scale /\ last.out.exc = "none")
        => LET X == sel[last.inst].d.metadataX
           IN  \A j \in 1..NumCols(X) :
                  Cardinality(Range(Column(X, j))) > 1
                     => (Mean(Column(X, j)) = R(0) /\ Var(Column(X, j)) = R(1))

----------------------------------------------------------------------------
\* C11: pred_fuzzy on a selector trained with RandomForest returns: with a
\* p-value below sig_level one label, the class of highest probability; with a
\* p-value of sig_level or more two labels, the two classes of highest
\* probability in descending order; each time as many probabilities as labels,
\* those of the returned classes, next to the p-value the count was decided on
C11_FuzzyLabelsFollowPValue ==
    (/\ last.op = "pred_fuzzy"
     /\ Trained(last.inst)
     /\ sel[last.inst].d.clf.method = "RandomForest")
    => /\ last.out.exc = "none"
       /\ LET clf == sel[last.inst].d.clf
              r == last.out.ret
              prob == PredictProba(clf, last.out.x.data[1])
              idx == ArgSortDesc(prob)
              n == IF RLess(r.pvalue, arg.sig_level) THEN 1 ELSE 2
          IN  /\ Len(r.label) = n
              /\ Len(r.probability) = n
              /\ \A k \in 1..n : /\ r.label[k] = clf.classes[idx[k]]
                                 /\ r.probability[k] = prob[idx[k]]

----------------------------------------------------------------------------
\* a train or a load on selector i has just returned
Installs(i) ==
    /\ last'.inst = i
    /\ last'.op \in {"train", "load_model"}
    /\ last'.out.exc = "none"

\* one call, seen from selector i
LifecycleStep(i) ==
    LET d == sel[i].d
        e == sel'[i].d
    IN  \* a train or a load that returns leaves a fitted classifier
        /\ Installs(i) => Trained(i)'
        \* the classifier a train leaves is the one this call fitted: of the
        \* method asked for, on the training part of the matrix as it was
        /\ (Installs(i) /\ last'.op = "train")
           => /\ e.clf.method = arg'.method
              /\ e.clf.n_fit = Len(d.metadataX) - NTest(Len(d.metadataX), arg'.test_size)
              /\ e.clf.n_features = NumCols(d.metadataX)
              /\ Range(e.clf.classes) \subseteq Range(d.metadataY)
        \* every other call, failing train and load included, leaves the
        \* classifier attribute as it was
        /\ ~Installs(i) => /\ ("clf" \in e.has) = ("clf" \in d.has)
                           /\ e.clf = d.clf
        \* and no call at all takes a fitted classifier away
        /\ Trained(i) => Trained(i)'

\* C12: a selector built from valid metadata holds no classifier; it stays
\* without one under count_category, preprocess, get_corr_mtx and every call
\* that fails; it holds a fitted classifier from the moment a train or a load
\* returns, and not before; a train that returns stores the classifier it has
\* just fitted in place of the old one; and a selector that holds a fitted
\* classifier keeps holding one under every call
C12_ClassifierLifecycle ==
    /\ Untrained(1) /\ sel[1].d.clf = NoneClf
    /\ [][\A i \in Instances : LifecycleStep(i)]_vars

\* selector 1 was trained, saved, and trained again with another method: the
\* file holds the first classifier, the selector the second
C12_SecondTrainReplacedClassifier ==
    /\ last.op = "train" /\ last.inst = 1 /\ last.out.exc = "none"
    /\ \E p \in Paths :
          /\ files[p].exists
          /\ files[p].saver.clf.fitted
          /\ files[p].saver.clf.method # sel[1].d.clf.method

----------------------------------------------------------------------------
\* the three row-aligned series of a selector, <<>> while it has none
Series(d) ==
    IF {"hpt", "metadataX", "metadataY"} \subseteq d.has
    THEN <<d.hpt, d.metadataX, d.metadataY>> ELSE <<>>

\* -1, 0, 1: how a compares with b
Ord(a, b) == IF a = b THEN 0 ELSE IF RLess(a, b) THEN 0 - 1 ELSE 1

\* rows i and k of X stand to each other, column by column, as rows r and q of
\* W do: what centering and scaling (by a positive x_std) keep of a column
SameOrder(X, i, k, W, r, q) ==
    /\ Len(X[i]) = Len(W[r]) /\ Len(X[k]) = Len(W[q])
    /\ \A j \in DOMAIN X[i] : Ord(X[i][j], X[k][j]) = Ord(W[r][j], W[q][j])

\* the feature vector of each record of the metadata list, as the constructor
\* reads it
RecordFeatures(d) ==
    List([r \in DOMAIN d.metadata |->
            LET items == Literal(d.metadata[r].features)
            IN  FillNaRow(List([j \in DOMAIN items |-> items[j][2]]))])

\* the series have one length, every row of metadataX has one value per
\* column name, and row i of hpt, metadataX and metadataY is one record of the
\* metadata list: its hpt_res table, its label, and its features up to
\* scaling
Aligned(d) ==
    Series(d) # <<>> =>
       LET n == Len(d.hpt)
           W == RecordFeatures(d)
           Cand(i) == {r \in DOMAIN d.metadata :
                          /\ Literal(d.metadata[r].hpt_res) = d.hpt[i]
                          /\ d.metadata[r].best_model = d.metadataY[i]}
       IN  /\ Len(d.metadataX) = n /\ Len(d.metadataY) = n
           /\ \A i \in 1..n : Len(d.metadataX[i]) = Len(d.col_namesX)
           /\ \A i, k \in 1..n : \E r \in Cand(i), q \in Cand(k) :
                 SameOrder(d.metadataX, i, k, W, r, q)

\* one call, seen from selector i
SeriesStep(i) ==
    LET d == sel[i].d
        e == sel'[i].d
        mine == last'.inst = i /\ last'.out.exc = "none"
        pre == mine /\ last'.op = "preprocess"
    IN  \* only preprocess and load_model replace a series, and leave them aligned
        /\ Series(e) # Series(d)
           => /\ mine /\ last'.op \in {"preprocess", "load_model"}
              /\ Aligned(e)
        \* preprocess(downsample=False, scale=False) changes nothing
        /\ (pre /\ ~arg'.downsample /\ ~arg'.scale) => e = d
        \* scaling alone keeps hpt and metadataY, the row count, the columns
        \* and the order of the rows
        /\ (pre /\ ~arg'.downsample /\ Series(d) # <<>>)
           => /\ e.hpt = d.hpt /\ e.metadataY = d.metadataY
              /\ e.col_namesX = d.col_namesX
              /\ Len(e.metadataX) = Len(d.metadataX)
              /\ \A a, b \in DOMAIN d.metadataX :
                    SameOrder(e.metadataX, a, b, d.metadataX, a, b)
        \* downsampling replaces the three together: each new row is one old
        \* row in all three, a whole class of the old rows at most once each
        /\ (pre /\ arg'.downsample)
           => /\ Len(e.hpt) = Len(e.metadataX) /\ Len(e.hpt) = Len(e.metadataY)
              /\ Len(e.hpt) = Cardinality(Range(d.metadataY))
                                 * Min({Count(d.metadataY, c) : c \in Range(d.metadataY)})
              /\ e.col_namesX = d.col_namesX
              /\ \A a, b \in DOMAIN e.hpt : \E r, q \in DOMAIN d.hpt :
                    /\ e.hpt[a] = d.hpt[r] /\ e.metadataY[a] = d.metadataY[r]
                    /\ e.hpt[b] = d.hpt[q] /\ e.metadataY[b] = d.metadataY[q]
                    /\ SameOrder(e.metadataX, a, b, d.metadataX, r, q)
                    /\ ~arg'.scale => e.metadataX[a] = d.metadataX[r]

\* C13: from construction on, under every sequence of calls, hpt, metadataX
\* and metadataY have one length and row i of each is the same record of the
\* metadata; preprocess with downsample replaces the three together, with
\* scale alone it changes only the values of metadataX (not its rows, their
\* order, or its columns), with neither it changes nothing; train and every
\* other call leave the three as they are
C13_SeriesStayRowAligned ==
    /\ \A i \in Instances : Aligned(sel[i].d)
    /\ [][\A i \in Instances : SeriesStep(i)]_vars

\* the selector was scaled, then downsampled and scaled again: two rows are
\* left, the A record and one B record, in the three series
C13_DownsampledAfterScaling ==
    /\ last.op = "preprocess" /\ last.inst = 1 /\ last.out.exc = "none"
    /\ arg.downsample /\ arg.scale /\ steps = 2
    /\ Len(sel[1].d.hpt) = 2 /\ Len(sel[1].d.metadataX) = 2
    /\ sel[1].d.metadataY = <<"A", "B">>
    /\ RLess(sel[1].d.metadataX[2][1], sel[1].d.metadataX[1][1])

====
